---- MODULE Spec2Model ----
(***************************************************************************)
(* A model of the rbac rego-input translation (regoInputValue,             *)
(* Subject.regoValue with the process-wide subject AST cache,              *)
(* Role/Scope.regoValue, Role.withCachedRegoValue) and of the              *)
(* template-version queries (GetTemplateVersionsByTemplateID,              *)
(* PruneUnusedTemplateVersions).                                           *)
(*                                                                         *)
(* ast.Object is a pointer type.  The objects that outlive a call and are  *)
(* reachable from several places are the ones a Role keeps in              *)
(* cachedRegoValue; they live in `heap` and are referred to by             *)
(* [ptr |-> address].  An object built during a call and reachable only    *)
(* from the value being built is written inline, as a function from its    *)
(* keys to its values.                                                     *)
(***************************************************************************)
EXTENDS Integers, Sequences, FiniteSets, TLC

VARIABLES
    heap,             \* the ast.Objects held in some Role.cachedRegoValue
    builtInRoles,     \* role name -> Role, what RoleNames.Expand looks up
    subjectASTCache,  \* the tlru cache, most recently used entry first
    now,              \* the wall clock, in seconds
    ret,              \* what the last call was given and what it returned
    pc,               \* goroutine -> where it is in Subject.regoValue
    loc,              \* goroutine -> the locals of its Subject.regoValue
    crashed,          \* the runtime ended the process
    template_versions,  \* table: id -> row
    provisioner_jobs,   \* table: id -> job_status
    templates,          \* table: id -> active_version_id
    workspace_builds,   \* table: a set of rows
    dbOp,               \* the last statement run and what it returned
    listing             \* a caller paging through a template's versions

rbacVars == <<heap, builtInRoles, subjectASTCache, now, ret>>
concVars == <<pc, loc, crashed>>
dbVars == <<template_versions, provisioner_jobs, templates, workspace_builds,
            dbOp, listing>>

-----------------------------------------------------------------------------
(* Bounds of the model.                                                    *)

\* The number of objects the heap may hold.
MaxHeap == 2
\* The cost limit of subjectASTCache (every entry costs 1).  The source
\* passes 1<<16; the model runs the same cache with a limit it can fill.
CacheCostLimit == 2
\* The clock stops advancing here.
MaxTime == 61
\* The number of goroutines calling Subject.regoValue at once.
NumProcs == 2

\* The number of rows template_versions may hold.
MaxVersions == 4
\* The number of builds one workspace may have.
MaxBuilds == 2
\* created_at and updated_at range over 1..MaxCreatedAt.
MaxCreatedAt == 2
\* The largest page size a listing asks for.
MaxLimit == 2

\* A mutation of TTL: an hour.
TTL_Hour == 60 * 60

\* time.Minute, the ttl Subject.regoValue passes to Set, in seconds.
TTL == 60

Nil == 0
NoValue == [nil |-> TRUE]

Min(a, b) == IF a < b THEN a ELSE b

-----------------------------------------------------------------------------
(* The entities.                                                           *)

Perm(t, a, n) == [ResourceType |-> t, Action |-> a, Negate |-> n]

NewRole(name, site, org, user) ==
    [Name |-> name, Site |-> site, Org |-> org, User |-> user,
     cachedRegoValue |-> Nil]

ownerRole == NewRole("owner", <<Perm("*", "*", FALSE)>>, <<>>, <<>>)

memberRole ==
    NewRole("member", <<>>,
            [o \in {"org1"} |-> <<Perm("workspace", "read", FALSE)>>],
            <<Perm("workspace", "update", FALSE)>>)

\* The role of the built-in scope "all": a literal, never given a cache.
scopeAllRole == NewRole("Scope_all", <<Perm("*", "*", FALSE)>>, <<>>, <<>>)

NoRole == NewRole("", <<>>, <<>>, <<>>)

\* An ExpandableScope is a ScopeName (Name # "") or a Scope (Name = "").
ScopeName(n) == [Name |-> n, Role |-> NoRole, AllowIDList |-> <<>>]
NewScope(role, allow) == [Name |-> "", Role |-> role, AllowIDList |-> allow]

builtinScopes == [n \in {"all"} |-> NewScope(scopeAllRole, <<"*">>)]

-----------------------------------------------------------------------------
(* ast values.                                                             *)

IsPtr(v) == DOMAIN v = {"ptr"}

\* ast.Object.Insert: sets key k of the object, adding it when absent.
Insert(obj, k, v) ==
    [x \in DOMAIN obj \cup {k} |-> IF x = k THEN v ELSE obj[x]]

\* The object a value stands for.
Deref(v, h) == IF IsPtr(v) THEN h[v.ptr] ELSE v

PermissionRegoValue(perm) ==
    [negate |-> perm.Negate, resource_type |-> perm.ResourceType,
     action |-> perm.Action]

regoSlicePermission(slice) ==
    [i \in 1..Len(slice) |-> PermissionRegoValue(slice[i])]

regoSliceString(slice) == [i \in 1..Len(slice) |-> slice[i]]

\* Role.regoValue past the cachedRegoValue test: a new object.
NewRoleObject(role) ==
    [site |-> regoSlicePermission(role.Site),
     org |-> [k \in DOMAIN role.Org |-> regoSlicePermission(role.Org[k])],
     user |-> regoSlicePermission(role.User)]

RoleRegoValue(role) ==
    IF role.cachedRegoValue # Nil
    THEN [ptr |-> role.cachedRegoValue]
    ELSE NewRoleObject(role)

regoSliceRole(slice) == [i \in 1..Len(slice) |-> RoleRegoValue(slice[i])]

\* Role.withCachedRegoValue: the copy, and the heap holding its object.
WithCachedRegoValue(role, h) ==
    IF role.cachedRegoValue # Nil
    THEN [role |-> role, heap |-> h]
    ELSE [role |-> [role EXCEPT !.cachedRegoValue = Len(h) + 1],
          heap |-> Append(h, NewRoleObject(role))]

\* Scope.regoValue: the Insert acts on the object Role.regoValue returned.
ScopeRegoValue(s, h) ==
    LET r == RoleRegoValue(s.Role)
        allow == regoSliceString(s.AllowIDList)
    IN  IF IsPtr(r)
        THEN [val |-> r,
              heap |-> [h EXCEPT ![r.ptr] = Insert(@, "allow_list", allow)]]
        ELSE [val |-> Insert(r, "allow_list", allow), heap |-> h]

ACLRegoValue(acl) == [k \in DOMAIN acl |-> regoSlicePermission(acl[k])]

ObjectRegoValue(z) ==
    [id |-> z.ID, owner |-> z.Owner, org_owner |-> z.OrgID, type |-> z.Type,
     acl_user_list |-> ACLRegoValue(z.ACLUserList),
     acl_group_list |-> ACLRegoValue(z.ACLGroupList)]

-----------------------------------------------------------------------------
(* The cache key: sha256 of json.NewEncoder(...).Encode(s).  The encoding  *)
(* is written out token by token; sha256 is taken to be collision free,    *)
(* so the key is the encoding itself.  encoding/json writes the exported   *)
(* fields in declaration order and skips the unexported cachedRegoValue.   *)

P(c) == [t |-> "punct", s |-> c]
Str(s) == [t |-> "string", s |-> s]
Bool(b) == [t |-> "bool", s |-> IF b THEN "true" ELSE "false"]

RECURSIVE ArrayItems(_, _)
ArrayItems(items, i) ==
    IF i > Len(items) THEN <<>>
    ELSE items[i] \o ArrayItems(items, i + 1)

\* A JSON array of already encoded items.
ArrayJSON(items) == <<P("[")>> \o ArrayItems(items, 1) \o <<P("]")>>

StringsJSON(slice) == ArrayJSON([i \in 1..Len(slice) |-> <<Str(slice[i])>>])

PermissionJSON(p) ==
    <<P("{"), Str("negate"), Bool(p.Negate),
      Str("resource_type"), Str(p.ResourceType),
      Str("action"), Str(p.Action), P("}")>>

PermissionsJSON(slice) ==
    ArrayJSON([i \in 1..Len(slice) |-> PermissionJSON(slice[i])])

\* A map is written key by key, in the one order encoding/json sorts to.
RECURSIVE OrgItems(_, _)
OrgItems(org, keys) ==
    IF keys = {} THEN <<>>
    ELSE LET k == CHOOSE x \in keys : TRUE
         IN  <<Str(k)>> \o PermissionsJSON(org[k])
                 \o OrgItems(org, keys \ {k})

RoleJSON(r) ==
    <<P("{"), Str("name"), Str(r.Name), Str("site")>>
        \o PermissionsJSON(r.Site)
        \o <<Str("org"), P("{")>> \o OrgItems(r.Org, DOMAIN r.Org)
        \o <<P("}"), Str("user")>> \o PermissionsJSON(r.User) \o <<P("}")>>

ScopeJSON(sc) ==
    IF sc.Name # "" THEN <<Str(sc.Name)>>
    ELSE <<P("{"), Str("Role")>> \o RoleJSON(sc.Role)
             \o <<Str("AllowIDList")>> \o StringsJSON(sc.AllowIDList)
             \o <<P("}")>>

SubjectJSON(s) ==
    <<P("{"), Str("ID"), Str(s.ID), Str("Roles")>> \o StringsJSON(s.Roles)
        \o <<Str("Groups")>> \o StringsJSON(s.Groups)
        \o <<Str("Scope")>> \o ScopeJSON(s.Scope) \o <<P("}")>>

cacheKey(s) == SubjectJSON(s)

-----------------------------------------------------------------------------
(* Expansion of role names and of the scope.                               *)

\* RoleNames.Expand: every name is looked up; an unknown name is an error.
ExpandRoles(names, roles) ==
    IF \A i \in 1..Len(names) : names[i] \in DOMAIN roles
    THEN [err |-> "", roles |-> [i \in 1..Len(names) |-> roles[names[i]]]]
    ELSE [err |-> "UnknownRole", roles |-> <<>>]

\* ScopeName.Expand looks the name up; Scope.Expand returns the scope.
ExpandScope(sc) ==
    IF sc.Name = "" THEN [err |-> "", scope |-> sc]
    ELSE IF sc.Name \in DOMAIN builtinScopes
         THEN [err |-> "", scope |-> builtinScopes[sc.Name]]
         ELSE [err |-> "UnknownScope", scope |-> sc]

-----------------------------------------------------------------------------
(* The tlru cache: entries [key, v, exp], most recently used first.        *)

Index(c, key) ==
    IF \E i \in 1..Len(c) : c[i].key = key
    THEN CHOOSE i \in 1..Len(c) : c[i].key = key
    ELSE 0

\* Get: an entry is found while its deadline has not passed; a found entry
\* becomes the most recently used.
CacheGet(c, key, t) ==
    LET i == Index(c, key)
    IN  IF i # 0 /\ t <= c[i].exp
        THEN [ok |-> TRUE, v |-> c[i].v,
              cache |-> <<c[i]>> \o SubSeq(c, 1, i - 1)
                            \o SubSeq(c, i + 1, Len(c))]
        ELSE [ok |-> FALSE, v |-> NoValue, cache |-> c]

NotKeyLive(e, key, t) == e.key # key /\ t <= e.exp

\* Set: the entry replaces one of the same key and becomes the most
\* recently used; expired entries go, then the least recently used ones
\* until the cost is within the limit.
CacheSet(c, key, v, ttl, t) ==
    LET kept == SelectSeq(c, LAMBDA e : NotKeyLive(e, key, t))
        all == <<[key |-> key, v |-> v, exp |-> t + ttl]>> \o kept
    IN  SubSeq(all, 1, Min(Len(all), CacheCostLimit))

-----------------------------------------------------------------------------
(* Subject.regoValue, regoInputValue, regoPartialInputValue as functions   *)
(* of the state they read; each returns the state it leaves.               *)

\* A mutation of ExpandError: the error of Roles.Expand is dropped.
ExpandError_RolesUnchecked(subjRoles, subjScope) ==
    IF subjScope.err # "" THEN "expand scope" ELSE ""

\* The two error returns of Subject.regoValue: which error, if any.
ExpandError(subjRoles, subjScope) ==
    IF subjRoles.err # "" THEN "expand roles"
    ELSE IF subjScope.err # "" THEN "expand scope"
    ELSE ""

\* Subject.regoValue of s with the cache c, the heap h and the registry
\* roles at time t.
SubjectRegoValue(s, c, h, roles, t) ==
    LET key == cacheKey(s)
        got == CacheGet(c, key, t)
        subjRoles == ExpandRoles(s.Roles, roles)
        subjScope == ExpandScope(s.Scope)
        err == ExpandError(subjRoles, subjScope)
        scope == ScopeRegoValue(subjScope.scope, h)
        subj == [id |-> s.ID,
                 roles |-> regoSliceRole(subjRoles.roles),
                 scope |-> scope.val,
                 groups |-> regoSliceString(s.Groups)]
    IN  IF got.ok
        THEN [val |-> got.v, err |-> "", cache |-> got.cache, heap |-> h,
              hit |-> TRUE, expanded |-> FALSE, stored |-> FALSE]
        ELSE IF err # ""
        THEN [val |-> NoValue, err |-> err, cache |-> c, heap |-> h,
              hit |-> FALSE, expanded |-> TRUE, stored |-> FALSE]
        ELSE [val |-> subj, err |-> "",
              cache |-> CacheSet(c, key, subj, TTL, t), heap |-> scope.heap,
              hit |-> FALSE, expanded |-> TRUE, stored |-> TRUE]

\* A mutation of RegoInputValue: the error of subject.regoValue() is not
\* looked at.
RegoInputValue_ErrorUnchecked(subject, action, object, c, h, roles, t) ==
    LET r == SubjectRegoValue(subject, c, h, roles, t)
    IN  [subj |-> r,
         input |-> [subject |-> r.val, action |-> action,
                    object |-> ObjectRegoValue(object)],
         err |-> ""]

\* regoInputValue: what subject.regoValue() did, and the input and error
\* returned.
RegoInputValue(subject, action, object, c, h, roles, t) ==
    LET r == SubjectRegoValue(subject, c, h, roles, t)
    IN  IF r.err # ""
        THEN [subj |-> r, input |-> NoValue, err |-> "subject"]
        ELSE [subj |-> r,
              input |-> [subject |-> r.val, action |-> action,
                         object |-> ObjectRegoValue(object)],
              err |-> ""]

RegoPartialInputValue(subject, action, objectType, c, h, roles, t) ==
    LET r == SubjectRegoValue(subject, c, h, roles, t)
    IN  IF r.err # ""
        THEN [subj |-> r, input |-> NoValue, err |-> "subject"]
        ELSE [subj |-> r,
              input |-> [subject |-> r.val, action |-> action,
                         object |-> [type |-> objectType]],
              err |-> ""]

-----------------------------------------------------------------------------
(* The inputs of the calls.                                                *)

Range(f) == {f[x] : x \in DOMAIN f}

AllowLists == {<<>>, <<"w1">>}

NewSubject(id, roles, scope, groups) ==
    [ID |-> id, Roles |-> roles, Scope |-> scope, Groups |-> groups]

\* The Scopes Scope.regoValue is called on directly: around the owner role
\* the registry gave out.
OwnerScopes(roles) == {NewScope(roles["owner"], a) : a \in AllowLists}

\* The scopes of the subjects: the named ones, a Scope around the
\* registry's owner role, and a Scope of the same content around an owner
\* role that was built without a cached value.
ScopeInputs(roles) ==
    {ScopeName("all"), ScopeName("nope"), NewScope(ownerRole, <<"w1">>),
     NewScope(roles["owner"], <<"w1">>)}

\* A subject with the owner role and a scope around the owner role, and
\* the subjects that differ from it in one field.
SubjectInputs(roles) ==
    LET b == NewScope(roles["owner"], <<"w1">>)
    IN  {NewSubject(i, <<"owner">>, b, <<>>) : i \in {"u1", "u2"}}
            \cup {NewSubject("u1", n, b, <<>>) :
                     n \in {<<"member">>, <<"ghost">>}}
            \cup {NewSubject("u1", <<"owner">>, sc, <<>>) :
                     sc \in ScopeInputs(roles)}
            \cup {NewSubject("u1", <<"owner">>, b, <<"g1">>)}

RoleInputs(roles) == Range(roles) \cup {scopeAllRole}

theAction == "read"

theObject ==
    [ID |-> "w1", Owner |-> "u1", OrgID |-> "org1", Type |-> "workspace",
     ACLUserList |-> [u \in {"u2"} |-> <<Perm("workspace", "read", FALSE)>>],
     ACLGroupList |-> <<>>]

theObjectType == "workspace"

\* A subject value with every pointer in it replaced by the object it
\* points to.
DeepSubject(v, h) ==
    [id |-> v.id,
     roles |-> [i \in 1..Len(v.roles) |-> Deref(v.roles[i], h)],
     scope |-> Deref(v.scope, h),
     groups |-> v.groups]

NoCall ==
    [val |-> NoValue, err |-> "", hit |-> FALSE, expanded |-> FALSE,
     stored |-> FALSE]

\* The record of a call: op and arg name it, at is when it was made, val
\* and err are what it returned, subj is what the Subject.regoValue call inside it returned and
\* did.
Returned(op, arg, val, err, subj) ==
    [op |-> op, arg |-> arg, at |-> now, val |-> val, err |-> err,
     subj |-> [val |-> subj.val, err |-> subj.err, hit |-> subj.hit,
               expanded |-> subj.expanded, stored |-> subj.stored]]

-----------------------------------------------------------------------------
(* The calls.                                                              *)

Procs == 1..NumProcs

NoLocals == [s |-> NoValue, val |-> NoValue, err |-> ""]

rbacStart ==
    LET owner == WithCachedRegoValue(ownerRole, <<>>)
    IN  /\ heap = owner.heap
        /\ builtInRoles = [n \in {"owner", "member"} |->
                              IF n = "owner" THEN owner.role ELSE memberRole]
        /\ subjectASTCache = <<>>
        /\ now = 0
        /\ ret = Returned("init", NoValue, NoValue, "", NoCall)
        /\ pc = [p \in Procs |-> "idle"]
        /\ loc = [p \in Procs |-> NoLocals]
        /\ crashed = FALSE


CallRoleRegoValue(role) ==
    /\ ret' = Returned("Role.regoValue", role, RoleRegoValue(role), "",
                       NoCall)
    /\ UNCHANGED <<heap, builtInRoles, subjectASTCache, now, concVars, dbVars>>

CallScopeRegoValue(sc) ==
    LET r == ScopeRegoValue(sc, heap)
    IN  /\ heap' = r.heap
        /\ ret' = Returned("Scope.regoValue", sc, r.val, "", NoCall)
        /\ UNCHANGED <<builtInRoles, subjectASTCache, now, concVars, dbVars>>

\* The registry replaces a role by its copy with the cached value.
CallWithCachedRegoValue(n) ==
    LET r == WithCachedRegoValue(builtInRoles[n], heap)
    IN  /\ Len(r.heap) <= MaxHeap
        /\ heap' = r.heap
        /\ builtInRoles' = [builtInRoles EXCEPT ![n] = r.role]
        /\ ret' = Returned("Role.withCachedRegoValue", builtInRoles[n],
                           r.role, "", NoCall)
        /\ UNCHANGED <<subjectASTCache, now, concVars, dbVars>>

Apply(op, s, r) ==
    /\ heap' = r.subj.heap
    /\ subjectASTCache' = r.subj.cache
    /\ ret' = Returned(op, s, r.input, r.err, r.subj)
    /\ UNCHANGED <<builtInRoles, now, concVars, dbVars>>

CallRegoInputValue(s) ==
    Apply("regoInputValue", s,
          RegoInputValue(s, theAction, theObject, subjectASTCache, heap,
                         builtInRoles, now))

CallRegoPartialInputValue(s) ==
    Apply("regoPartialInputValue", s,
          RegoPartialInputValue(s, theAction, theObjectType, subjectASTCache,
                                heap, builtInRoles, now))

\* Time passes.
Tick(d) ==
    /\ now + d <= MaxTime
    /\ now' = now + d
    /\ UNCHANGED <<heap, builtInRoles, subjectASTCache, ret, concVars, dbVars>>

TickSteps == {TTL, TTL + 1}

rbacNext ==
    \/ \E role \in RoleInputs(builtInRoles) : CallRoleRegoValue(role)
    \/ \E sc \in OwnerScopes(builtInRoles) \cup Range(builtinScopes) :
          CallScopeRegoValue(sc)
    \/ \E n \in DOMAIN builtInRoles : CallWithCachedRegoValue(n)
    \/ \E s \in SubjectInputs(builtInRoles) : CallRegoInputValue(s)
    \/ \E s \in SubjectInputs(builtInRoles) : CallRegoPartialInputValue(s)
    \/ \E d \in TickSteps : Tick(d)

\* The registry drops a role definition, or takes the definition of a
\* role it does not hold.
DropRole(n) ==
    /\ n \in DOMAIN builtInRoles
    /\ builtInRoles' = [x \in DOMAIN builtInRoles \ {n} |-> builtInRoles[x]]
    /\ ret' = Returned("DropRole", n, NoValue, "", NoCall)
    /\ UNCHANGED <<heap, subjectASTCache, now, concVars, dbVars>>

AddRole(role) ==
    /\ role.Name \notin DOMAIN builtInRoles
    /\ builtInRoles' = [x \in DOMAIN builtInRoles \cup {role.Name} |->
                           IF x = role.Name THEN role ELSE builtInRoles[x]]
    /\ ret' = Returned("AddRole", role.Name, NoValue, "", NoCall)
    /\ UNCHANGED <<heap, subjectASTCache, now, concVars, dbVars>>

regNext ==
    \/ \E n \in {"member"} : DropRole(n)
    \/ \E role \in {memberRole} : AddRole(role)

-----------------------------------------------------------------------------
(* Subject.regoValue statement by statement, called from several           *)
(* goroutines.  The cache locks around Get and around Set.  Insert on an   *)
(* ast.Object takes no lock: two Inserts into one object at once are a     *)
(* data race, after which the object holds either write and the runtime    *)
(* may end the process.                                                    *)

\* The subjects the goroutines translate: two users whose scopes wrap the
\* registry's owner role, one restricted to w1, one unrestricted.
ConcSubjects(roles) ==
    {NewSubject("u1", <<"owner">>, NewScope(roles["owner"], <<"w1">>), <<>>),
     NewSubject("u2", <<"owner">>, NewScope(roles["owner"], <<>>), <<>>)}

ConcCall(p, s) ==
    /\ ~crashed /\ pc[p] = "idle"
    /\ pc' = [pc EXCEPT ![p] = "Get"]
    /\ loc' = [loc EXCEPT ![p] = [NoLocals EXCEPT !.s = s]]
    /\ UNCHANGED <<rbacVars, crashed, dbVars>>

\* subjectASTCache.Get(cacheKey), and the return on a hit.
ConcGet(p) ==
    LET got == CacheGet(subjectASTCache, cacheKey(loc[p].s), now)
    IN  /\ ~crashed /\ pc[p] = "Get"
        /\ subjectASTCache' = got.cache
        /\ IF got.ok
           THEN /\ pc' = [pc EXCEPT ![p] = "Return"]
                /\ loc' = [loc EXCEPT ![p].val = got.v]
           ELSE /\ pc' = [pc EXCEPT ![p] = "Expand"]
                /\ UNCHANGED loc
        /\ UNCHANGED <<heap, builtInRoles, now, ret, crashed, dbVars>>

\* s.Roles.Expand(), s.Scope.Expand() and their error returns.
ConcExpand(p) ==
    LET err == ExpandError(ExpandRoles(loc[p].s.Roles, builtInRoles),
                           ExpandScope(loc[p].s.Scope))
    IN  /\ ~crashed /\ pc[p] = "Expand"
        /\ IF err # ""
           THEN /\ pc' = [pc EXCEPT ![p] = "Return"]
                /\ loc' = [loc EXCEPT ![p].err = err]
           ELSE /\ pc' = [pc EXCEPT ![p] = "Insert"]
                /\ UNCHANGED loc
        /\ UNCHANGED <<rbacVars, crashed, dbVars>>

\* The object Scope.regoValue is about to Insert into.
ScopeObject(p) == RoleRegoValue(ExpandScope(loc[p].s.Scope).scope.Role)

\* Scope.regoValue enters r.Insert.
ConcInsertBegin(p) ==
    /\ ~crashed /\ pc[p] = "Insert"
    /\ pc' = [pc EXCEPT ![p] = "Inserting"]
    /\ UNCHANGED <<rbacVars, loc, crashed, dbVars>>

Racing(p) ==
    \E q \in Procs \ {p} :
        /\ pc[q] = "Inserting"
        /\ IsPtr(ScopeObject(p)) /\ ScopeObject(q) = ScopeObject(p)

\* r.Insert returns, and the subject object is built around r.
ConcInsertEnd(p) ==
    LET sc == ExpandScope(loc[p].s.Scope).scope
        done == ScopeRegoValue(sc, heap)
        subj == [id |-> loc[p].s.ID,
                 roles |-> regoSliceRole(
                     ExpandRoles(loc[p].s.Roles, builtInRoles).roles),
                 scope |-> done.val,
                 groups |-> regoSliceString(loc[p].s.Groups)]
    IN  /\ ~crashed /\ pc[p] = "Inserting"
        /\ \/ /\ heap' = done.heap
              /\ UNCHANGED crashed
           \/ /\ Racing(p)
              /\ UNCHANGED <<heap, crashed>>
           \/ /\ Racing(p)
              /\ crashed' = TRUE
              /\ UNCHANGED heap
        /\ pc' = [pc EXCEPT ![p] = "Set"]
        /\ loc' = [loc EXCEPT ![p].val = subj]
        /\ UNCHANGED <<builtInRoles, subjectASTCache, now, ret, dbVars>>

\* subjectASTCache.Set(cacheKey, subj, time.Minute).
ConcSet(p) ==
    /\ ~crashed /\ pc[p] = "Set"
    /\ subjectASTCache' = CacheSet(subjectASTCache, cacheKey(loc[p].s),
                                   loc[p].val, TTL, now)
    /\ pc' = [pc EXCEPT ![p] = "Return"]
    /\ UNCHANGED <<heap, builtInRoles, now, ret, loc, crashed, dbVars>>

\* The caller takes what was returned.
ConcReturn(p) ==
    /\ ~crashed /\ pc[p] = "Return"
    /\ pc' = [pc EXCEPT ![p] = "idle"]
    /\ loc' = [loc EXCEPT ![p] = NoLocals]
    /\ ret' = Returned("Subject.regoValue", loc[p].s, loc[p].val,
                       loc[p].err, NoCall)
    /\ UNCHANGED <<heap, builtInRoles, subjectASTCache, now, crashed, dbVars>>

concNext ==
    \E p \in Procs :
        \/ \E s \in ConcSubjects(builtInRoles) : ConcCall(p, s)
        \/ ConcGet(p)
        \/ ConcExpand(p)
        \/ ConcInsertBegin(p)
        \/ ConcInsertEnd(p)
        \/ ConcSet(p)
        \/ ConcReturn(p)

-----------------------------------------------------------------------------
(* SQL values.  A nullable column or argument is a set: {} is NULL and    *)
(* {x} is the value x.  A condition is "true", "false" or "null", and a   *)
(* WHERE clause keeps the rows whose condition is "true".                 *)

\* '00000000-0000-0000-0000-000000000000'::uuid; uuids are integers,
\* compared as integers.
uuidNil == 0

SqlBool(b) == IF b THEN "true" ELSE "false"

SqlNot(x) ==
    CASE x = "true" -> "false"
      [] x = "false" -> "true"
      [] OTHER -> "null"

SqlAnd(x, y) ==
    IF x = "false" \/ y = "false" THEN "false"
    ELSE IF x = "null" \/ y = "null" THEN "null"
    ELSE "true"

SqlEq(a, b) == IF a = {} \/ b = {} THEN "null" ELSE SqlBool(a = b)

SqlNe(a, b) == SqlNot(SqlEq(a, b))

\* A mutation of RowGt: the cursor compares created_at alone.
RowGt_CreatedAtOnly(a, b) ==
    IF b = {} THEN "null"
    ELSE LET c == CHOOSE x \in b : TRUE IN SqlBool(a[1] > c[1])

\* (created_at, id) > (SELECT created_at, id ...): a row comparison with a
\* subquery that yields one row or none.
RowGt(a, b) ==
    IF b = {} THEN "null"
    ELSE LET c == CHOOSE x \in b : TRUE
         IN  SqlBool(a[1] > c[1] \/ (a[1] = c[1] /\ a[2] > c[2]))

-----------------------------------------------------------------------------
(* The template_versions queries.                                          *)

VersionIDs == 1..MaxVersions
TemplateIDs == {"t1", "t2"}
WorkspaceIDs == {"w1", "w2"}
JobStatuses == {"pending", "running", "succeeded", "failed"}
Times == 1..MaxCreatedAt

NoOp == [name |-> "", template_id |-> {}, job_status |-> {}, ids |-> {}]

NoListing ==
    [phase |-> "idle", template_id |-> "", deleted |-> {}, limit_opt |-> 0,
     after_id |-> uuidNil, rows |-> <<>>, stable |-> {},
     cursor_deleted |-> FALSE]

\* The row of template_versions with the given id, as a query returns it.
RowOf(tv, id) ==
    [id |-> id, template_id |-> tv[id].template_id,
     created_at |-> tv[id].created_at, deleted |-> tv[id].deleted]

\* ORDER BY (created_at, id) ASC.
RECURSIVE OrderByCreatedAtID(_, _)
OrderByCreatedAtID(tv, ids) ==
    IF ids = {} THEN <<>>
    ELSE LET first == CHOOSE i \in ids : \A j \in ids :
                          \/ tv[i].created_at < tv[j].created_at
                          \/ /\ tv[i].created_at = tv[j].created_at
                             /\ i <= j
         IN  <<RowOf(tv, first)>> \o OrderByCreatedAtID(tv, ids \ {first})

\* The WHERE clause of GetTemplateVersionsByTemplateID without the cursor:
\* template_id = @template_id and the optional deleted filter.
MatchesFilter(tv, id, template_id, deleted) ==
    SqlAnd(SqlEq(tv[id].template_id, {template_id}),
           IF deleted = {} THEN "true"
           ELSE SqlEq({tv[id].deleted}, deleted))

GetTemplateVersionsByTemplateID(tv, template_id, deleted, after_id, offset_opt, limit_opt) ==
    LET cursor == IF after_id \in DOMAIN tv
                  THEN {<<tv[after_id].created_at, after_id>>}
                  ELSE {}
        Where(id) ==
            SqlAnd(MatchesFilter(tv, id, template_id, deleted),
                   IF after_id # uuidNil
                   THEN RowGt(<<tv[id].created_at, id>>, cursor)
                   ELSE "true")
        ordered == OrderByCreatedAtID(tv,
                       {id \in DOMAIN tv : Where(id) = "true"})
        rest == SubSeq(ordered, offset_opt + 1, Len(ordered))
    IN  IF limit_opt = 0 THEN rest
        ELSE SubSeq(rest, 1, Min(limit_opt, Len(rest)))

\* A mutation of UsedVersions: the first build of every workspace.
UsedVersions_FirstBuild(builds) ==
    {b.template_version_id : b \in
        {x \in builds : \A y \in builds :
            y.workspace_id = x.workspace_id
                => y.build_number >= x.build_number}}

\* SELECT DISTINCT ON (workspace_id) template_version_id FROM
\* workspace_builds ORDER BY workspace_id, build_number DESC.
UsedVersions(builds) ==
    {b.template_version_id : b \in
        {x \in builds : \A y \in builds :
            y.workspace_id = x.workspace_id
                => y.build_number <= x.build_number}}

\* (SELECT * FROM template_versions WHERE template_id = @template_id AND
\* deleted = false).
ScopedTemplateVersions(tv, template_id) ==
    {id \in DOMAIN tv :
        SqlAnd(SqlEq(tv[id].template_id, {template_id}),
               SqlEq({tv[id].deleted}, {FALSE})) = "true"}

\* The columns the two LEFT JOINs add to a row: NULL where nothing joins.
JoinedJobStatus(tv, jobs, id) ==
    IF tv[id].job_id \in DOMAIN jobs THEN {jobs[tv[id].job_id]} ELSE {}

JoinedActiveVersion(tv, tpls, id) ==
    IF tv[id].template_id = {} THEN {}
    ELSE LET t == CHOOSE x \in tv[id].template_id : TRUE
         IN  IF t \in DOMAIN tpls THEN {tpls[t]} ELSE {}

\* The subquery deleted_versions.
DeletedVersions(tv, jobs, tpls, builds, template_id, job_status) ==
    {id \in ScopedTemplateVersions(tv, template_id) :
        LET js == JoinedJobStatus(tv, jobs, id)
            active == JoinedActiveVersion(tv, tpls, id)
        IN  SqlAnd(SqlBool(id \notin UsedVersions(builds)),
            SqlAnd(SqlNe(active, {id}),
            SqlAnd(IF job_status # {} THEN SqlEq(js, job_status)
                   ELSE "true",
            SqlAnd(SqlNe(js, {"running"}),
                   SqlNe(js, {"pending"}))))) = "true"}

\* A listing in progress keeps, beside what the caller holds, the rows
\* that have matched its filter at every moment since it began; a finished
\* listing is forgotten by the next statement.
Track(tv) ==
    IF listing.phase = "paging"
    THEN [listing EXCEPT
             !.stable = @ \cap
                 {id \in DOMAIN tv :
                     MatchesFilter(tv, id, listing.template_id,
                                   listing.deleted) = "true"},
             !.cursor_deleted = @ \/
                 /\ listing.after_id \in DOMAIN tv
                 /\ tv[listing.after_id].deleted
                 /\ ~template_versions[listing.after_id].deleted]
    ELSE NoListing

InsertTemplateVersion(id, template_id, created_at, updated_at, job_id) ==
    /\ id \notin DOMAIN template_versions
    /\ template_versions' =
           [i \in DOMAIN template_versions \cup {id} |->
               IF i = id
               THEN [template_id |-> template_id, created_at |-> created_at,
                     updated_at |-> updated_at, deleted |-> FALSE,
                     job_id |-> job_id]
               ELSE template_versions[i]]
    /\ dbOp' = [NoOp EXCEPT !.name = "InsertTemplateVersion"]
    /\ listing' = Track(template_versions')
    /\ UNCHANGED <<provisioner_jobs, templates, workspace_builds>>
    /\ UNCHANGED <<rbacVars, concVars>>

UpdateTemplateVersionByID(id, template_id, updated_at) ==
    /\ template_versions' =
           [i \in DOMAIN template_versions |->
               IF i = id
               THEN [template_versions[i] EXCEPT
                        !.template_id = template_id,
                        !.updated_at = updated_at]
               ELSE template_versions[i]]
    /\ dbOp' = [NoOp EXCEPT !.name = "UpdateTemplateVersionByID"]
    /\ listing' = Track(template_versions')
    /\ UNCHANGED <<provisioner_jobs, templates, workspace_builds>>
    /\ UNCHANGED <<rbacVars, concVars>>

PruneUnusedTemplateVersions(template_id, job_status, updated_at) ==
    LET deleted_versions ==
            DeletedVersions(template_versions, provisioner_jobs, templates,
                            workspace_builds, template_id, job_status)
    IN  /\ template_versions' =
               [i \in DOMAIN template_versions |->
                   IF i \in deleted_versions
                   THEN [template_versions[i] EXCEPT
                            !.deleted = TRUE, !.updated_at = updated_at]
                   ELSE template_versions[i]]
        /\ dbOp' = [name |-> "PruneUnusedTemplateVersions",
                    template_id |-> {template_id},
                    job_status |-> job_status,
                    ids |-> deleted_versions]
        /\ listing' = Track(template_versions')
        /\ UNCHANGED <<provisioner_jobs, templates, workspace_builds>>
        /\ UNCHANGED <<rbacVars, concVars>>

\* Rows of provisioner_jobs, workspace_builds and templates are written by
\* statements of the storage layer that set a job's status, append a
\* workspace's next build and move a template's active version.
SetProvisionerJob(job_id, job_status) ==
    /\ provisioner_jobs' =
           [j \in DOMAIN provisioner_jobs \cup {job_id} |->
               IF j = job_id THEN job_status ELSE provisioner_jobs[j]]
    /\ dbOp' = [NoOp EXCEPT !.name = "SetProvisionerJob"]
    /\ listing' = Track(template_versions)
    /\ UNCHANGED <<template_versions, templates, workspace_builds>>
    /\ UNCHANGED <<rbacVars, concVars>>

InsertWorkspaceBuild(workspace_id, template_version_id) ==
    LET mine == {b \in workspace_builds : b.workspace_id = workspace_id}
    IN  /\ Cardinality(mine) < MaxBuilds
        /\ template_version_id \in DOMAIN template_versions
        /\ ~template_versions[template_version_id].deleted
        /\ workspace_builds' = workspace_builds \cup
               {[workspace_id |-> workspace_id,
                 build_number |-> Cardinality(mine) + 1,
                 template_version_id |-> template_version_id]}
        /\ dbOp' = [NoOp EXCEPT !.name = "InsertWorkspaceBuild"]
        /\ listing' = Track(template_versions)
        /\ UNCHANGED <<template_versions, provisioner_jobs, templates>>
        /\ UNCHANGED <<rbacVars, concVars>>

UpdateTemplateActiveVersionByID(id, active_version_id) ==
    /\ id \in DOMAIN templates
    /\ active_version_id \in DOMAIN template_versions
    /\ template_versions[active_version_id].template_id = {id}
    /\ ~template_versions[active_version_id].deleted
    /\ templates' = [templates EXCEPT ![id] = active_version_id]
    /\ dbOp' = [NoOp EXCEPT !.name = "UpdateTemplateActiveVersionByID"]
    /\ listing' = Track(template_versions)
    /\ UNCHANGED <<template_versions, provisioner_jobs, workspace_builds>>
    /\ UNCHANGED <<rbacVars, concVars>>

\* A caller pages through a template's versions: offset 0, a fixed limit,
\* after_id the last id of the page before, until a page comes back short.
ListBegin(template_id, deleted, limit_opt) ==
    /\ listing.phase # "paging"
    /\ listing' =
           [phase |-> "paging", template_id |-> template_id,
            deleted |-> deleted, limit_opt |-> limit_opt,
            after_id |-> uuidNil, rows |-> <<>>,
            stable |-> {id \in DOMAIN template_versions :
                           MatchesFilter(template_versions, id, template_id,
                                         deleted) = "true"},
            cursor_deleted |-> FALSE]
    /\ dbOp' = [NoOp EXCEPT !.name = "ListBegin"]
    /\ UNCHANGED <<template_versions, provisioner_jobs, templates,
                   workspace_builds>>
    /\ UNCHANGED <<rbacVars, concVars>>

ListNextPage ==
    LET page == GetTemplateVersionsByTemplateID(
                    template_versions, listing.template_id, listing.deleted,
                    listing.after_id, 0, listing.limit_opt)
    IN  /\ listing.phase = "paging"
        /\ listing' =
               [listing EXCEPT
                   !.rows = @ \o page,
                   !.after_id = IF page = <<>> THEN @
                                ELSE page[Len(page)].id,
                   !.phase = IF Len(page) < listing.limit_opt
                             THEN "done" ELSE "paging"]
        /\ dbOp' = [NoOp EXCEPT !.name = "GetTemplateVersionsByTemplateID"]
        /\ UNCHANGED <<template_versions, provisioner_jobs, templates,
                       workspace_builds>>
        /\ UNCHANGED <<rbacVars, concVars>>

\* One query with limit 0.
ListAll(template_id, deleted) ==
    /\ listing.phase # "paging"
    /\ listing' =
           [NoListing EXCEPT
               !.phase = "all", !.template_id = template_id,
               !.deleted = deleted,
               !.rows = GetTemplateVersionsByTemplateID(
                            template_versions, template_id, deleted,
                            uuidNil, 0, 0)]
    /\ dbOp' = [NoOp EXCEPT !.name = "GetTemplateVersionsByTemplateID"]
    /\ UNCHANGED <<template_versions, provisioner_jobs, templates,
                   workspace_builds>>
    /\ UNCHANGED <<rbacVars, concVars>>

\* Two templates: "t1" with its active version 1 and an older version 2
\* imported at the same time, "t2" with its active version 3.
dbInit ==
    /\ rbacStart
    /\ template_versions =
           [id \in 1..3 |->
               [template_id |-> IF id = 3 THEN {"t2"} ELSE {"t1"},
                created_at |-> IF id = 3 THEN MaxCreatedAt ELSE 1,
                updated_at |-> IF id = 3 THEN MaxCreatedAt ELSE 1,
                deleted |-> FALSE, job_id |-> id]]
    /\ provisioner_jobs = [j \in 1..3 |-> "succeeded"]
    /\ templates = [t \in TemplateIDs |-> IF t = "t1" THEN 1 ELSE 3]
    /\ workspace_builds = {}
    /\ dbOp = NoOp
    /\ listing = NoListing

pruneNext ==
    \/ \E t \in TemplateIDs, js \in {{}, {"failed"}} :
           PruneUnusedTemplateVersions(t, js, MaxCreatedAt)
    \/ InsertTemplateVersion(MaxVersions, {"t1"}, MaxCreatedAt, MaxCreatedAt,
                             MaxVersions)
    \/ \E j \in {2, MaxVersions}, st \in JobStatuses : SetProvisionerJob(j, st)
    \/ \E w \in WorkspaceIDs, v \in {2, MaxVersions} :
           InsertWorkspaceBuild(w, v)
    \/ \E t \in TemplateIDs, v \in DOMAIN template_versions :
           UpdateTemplateActiveVersionByID(t, v)

listNext ==
    \/ \E id \in VersionIDs, t \in {{}, {"t1"}}, c \in Times :
           InsertTemplateVersion(id, t, c, c, id)
    \/ \E id \in VersionIDs :
           UpdateTemplateVersionByID(id, {"t1"}, MaxCreatedAt)
    \/ \E t \in TemplateIDs : PruneUnusedTemplateVersions(t, {}, MaxCreatedAt)
    \/ \E deleted \in {{}, {FALSE}}, n \in 1..MaxLimit :
           ListBegin("t1", deleted, n)
    \/ ListNextPage
    \/ \E deleted \in {{}, {FALSE}} : ListAll("t1", deleted)

\* The authorization package on its own: no database rows.
rbacInit ==
    /\ rbacStart
    /\ template_versions = <<>>
    /\ provisioner_jobs = <<>>
    /\ templates = <<>>
    /\ workspace_builds = {}
    /\ dbOp = NoOp
    /\ listing = NoListing

vars == <<rbacVars, concVars, dbVars>>

\* Concurrent callers of Subject.regoValue.
SpecConc == rbacInit /\ [][concNext]_vars

\* The translation with a fixed set of role definitions.
Spec == rbacInit /\ [][rbacNext]_vars

\* The translation while role definitions come and go.
SpecReg == rbacInit /\ [][rbacNext \/ regNext]_vars

\* Pruning while builds, jobs and active versions change.
SpecPrune == dbInit /\ [][pruneNext]_vars

\* Listing a template's versions while rows are written.
SpecList == dbInit /\ [][listNext]_vars

-----------------------------------------------------------------------------
(* What the claims are stated with.                                        *)

InputOps == {"regoInputValue", "regoPartialInputValue"}

\* The last call was one of the two input builders.
InputCall == ret.op \in InputOps

\* Two subjects of the same content: the same in everything but the
\* derived cachedRegoValue of the scope's role.
Content(s) == [s EXCEPT !.Scope.Role.cachedRegoValue = Nil]

\* What an uncached translation of s yields in this state, written out.
FreshSubject(s) ==
    LET r == SubjectRegoValue(s, <<>>, heap, builtInRoles, now)
    IN  [err |-> r.err,
         val |-> IF r.err = "" THEN DeepSubject(r.val, r.heap) ELSE NoValue]

\* translate(Scope) as section 4.1 has it: translate(Role) with allow_list.
ScopeTranslation(sc) ==
    Insert(NewRoleObject(sc.Role), "allow_list",
           regoSliceString(sc.AllowIDList))

UnknownRoleIn(s) == \E i \in 1..Len(s.Roles) : s.Roles[i] \notin DOMAIN builtInRoles

ExpansionFails(s) ==
    \/ UnknownRoleIn(s)
    \/ s.Scope.Name # "" /\ s.Scope.Name \notin DOMAIN builtinScopes

Entries(c) == {c[i] : i \in 1..Len(c)}

\* C1: a value Subject.regoValue returns from the cache for subject S
\* equals what a fresh, uncached translation of S would produce then.
C1_CacheReturnsFreshTranslation ==
    (InputCall /\ ret.subj.hit) =>
        LET f == FreshSubject(ret.arg)
        IN  /\ f.err = ""
            /\ DeepSubject(ret.subj.val, heap) = f.val

\* C2: withCachedRegoValue returns a copy and leaves its receiver alone,
\* and translate(Role) of a role with a cached value returns exactly the
\* {site, org, user} object the cache field was computed as.
C2_CachedRoleNeverMutated ==
    /\ ret.op = "Role.withCachedRegoValue" =>
          /\ ret.val.cachedRegoValue # Nil
          /\ ret.val = [ret.arg EXCEPT
                           !.cachedRegoValue = ret.val.cachedRegoValue]
    /\ (ret.op = "Role.regoValue" /\ ret.arg.cachedRegoValue # Nil) =>
          Deref(ret.val, heap) = NewRoleObject(ret.arg)

\* C3: the value translate(Scope) returned for A is translate(A.Role) with
\* allow_list = A.AllowIDList, and so is the copy of it inside a cached
\* Subject translation, whatever Scope was translated since; no input
\* handed to the evaluator carries another scope's allow_list.
C3_ScopeKeepsItsAllowList ==
    /\ ret.op = "Scope.regoValue" =>
          Deref(ret.val, heap) = ScopeTranslation(ret.arg)
    /\ \A e \in Entries(subjectASTCache) :
          \A s \in SubjectInputs(builtInRoles) :
              (cacheKey(s) = e.key /\ ~ExpansionFails(s)) =>
                  Deref(e.v.scope, heap)
                      = ScopeTranslation(ExpandScope(s.Scope).scope)
    /\ (InputCall /\ ret.err = "") =>
          Deref(ret.val.subject.scope, heap).allow_list
              = regoSliceString(ExpandScope(ret.arg.Scope).scope.AllowIDList)

\* C6: subjects of identical content have the same cache key and the same
\* translated value, subjects of different content have different keys,
\* and a value returned from the cache was stored for the same content.
C6_CacheKeyCorrect ==
    /\ \A s1, s2 \in SubjectInputs(builtInRoles) :
          (Content(s1) = Content(s2)) <=> (cacheKey(s1) = cacheKey(s2))
    /\ (InputCall /\ ret.err = "") =>
          \A s \in SubjectInputs(builtInRoles) :
              Content(s) = Content(ret.arg) =>
                  FreshSubject(s).val = DeepSubject(ret.subj.val, heap)

\* C4: when role or scope expansion of a subject fails, Subject.regoValue
\* returns an error and no value and leaves the cache as it was, and
\* regoInputValue and regoPartialInputValue return an error and no input.
C4_FailuresPropagate ==
    [][ (InputCall /\ ret.subj.expanded /\ ExpansionFails(ret.arg))' =>
            /\ (ret.subj.err # "" /\ ret.subj.val = NoValue)'
            /\ (ret.err # "" /\ ret.val = NoValue)'
            /\ subjectASTCache' = subjectASTCache ]_vars

\* A scope expansion failed while the cache held an entry.
C4_Witness ==
    /\ InputCall /\ ret.subj.expanded /\ ExpansionFails(ret.arg)
    /\ ret.subj.err = "expand scope" /\ ret.err = "subject"
    /\ subjectASTCache # <<>>

\* C5 as stated: a call on a subject that names a role undefined at the
\* time of the call returns an error, cached or not.
C5_UnknownRoleAlwaysFails ==
    (InputCall /\ UnknownRoleIn(ret.arg)) => ret.subj.err # ""

\* C5 amended: such a call returns an error and no value unless the cache
\* still holds an unexpired translation of a subject of identical content;
\* then it returns that entry's value, no later than 60 seconds after the
\* entry was stored.
C5_UnknownRoleFailsUnlessCached ==
    (InputCall /\ UnknownRoleIn(ret.arg)) =>
        IF ret.subj.hit
        THEN /\ ret.subj.err = ""
             /\ subjectASTCache[1].key = cacheKey(ret.arg)
             /\ subjectASTCache[1].v = ret.subj.val
             /\ ret.at <= subjectASTCache[1].exp
             /\ subjectASTCache[1].exp <= ret.at + 60
        ELSE /\ ret.subj.err = "expand roles" /\ ret.subj.val = NoValue
             /\ ret.err # "" /\ ret.val = NoValue

\* A subject whose role has lost its definition is served from the cache.
C5_Witness == InputCall /\ UnknownRoleIn(ret.arg) /\ ret.subj.hit

\* C8: a miss translates in full and stores the value under the subject's
\* key with a deadline 60 seconds on; a hit returns the stored value as it
\* is, expands nothing and stores nothing; the cache never holds more
\* entries than its limit, and no entry is returned more than 60 seconds
\* after it was stored.
C8_GetSetProtocol ==
    [][ /\ Len(subjectASTCache') <= CacheCostLimit
        /\ (InputCall /\ ~ret.subj.hit /\ ret.subj.err = "")' =>
              /\ ret'.subj.expanded
              /\ ret'.subj.val.id = ret'.arg.ID
              /\ Len(ret'.subj.val.roles) = Len(ret'.arg.Roles)
              /\ ret'.subj.val.groups = ret'.arg.Groups
              /\ DOMAIN Deref(ret'.subj.val.scope, heap')
                    = {"site", "org", "user", "allow_list"}
              /\ subjectASTCache'[1]
                    = [key |-> cacheKey(ret'.arg), v |-> ret'.subj.val,
                       exp |-> ret'.at + 60]
        /\ (InputCall /\ ret.subj.hit)' =>
              /\ subjectASTCache'[1].key = cacheKey(ret'.arg)
              /\ subjectASTCache'[1].v = ret'.subj.val
              /\ ~ret'.subj.expanded /\ ~ret'.subj.stored
              /\ ret'.at <= subjectASTCache'[1].exp
              /\ subjectASTCache'[1].exp <= ret'.at + 60
              /\ Entries(subjectASTCache') = Entries(subjectASTCache)
              /\ heap' = heap ]_vars

\* A full cache served an entry on the last second of its life.
C8_Witness ==
    /\ InputCall /\ ret.subj.hit /\ ret.at = 60
    /\ subjectASTCache[1].exp = 60
    /\ Len(subjectASTCache) = CacheCostLimit

\* Every key of want is a key of obj with the same value.
Covers(obj, want) ==
    \A k \in DOMAIN want : k \in DOMAIN obj /\ obj[k] = want[k]

\* v holds the whole translation of s: its id, its groups, every role's
\* site, org and user, and the scope's role with the scope's allow_list.
Complete(v, s) ==
    LET d == DeepSubject(v, heap)
        roles == ExpandRoles(s.Roles, builtInRoles).roles
    IN  /\ d.id = s.ID
        /\ d.groups = regoSliceString(s.Groups)
        /\ Len(d.roles) = Len(roles)
        /\ \A i \in 1..Len(roles) : Covers(d.roles[i], NewRoleObject(roles[i]))
        /\ Covers(d.scope, ScopeTranslation(ExpandScope(s.Scope).scope))

\* C7: under any interleaving of Subject.regoValue calls every key in the
\* cache maps to the complete translation of a subject of that content,
\* no key has two entries, and every caller is returned a complete
\* translation of its own subject.
C7_ConcurrentCallsKeepCacheSound ==
    /\ \A e \in Entries(subjectASTCache) :
          \E s \in ConcSubjects(builtInRoles) :
              cacheKey(s) = e.key /\ Complete(e.v, s)
    /\ \A i, j \in 1..Len(subjectASTCache) :
          subjectASTCache[i].key = subjectASTCache[j].key => i = j
    /\ \A p \in Procs :
          (pc[p] = "Return" /\ loc[p].err = "") => Complete(loc[p].val, loc[p].s)

-----------------------------------------------------------------------------
(* C9 and C10: the template_versions statements.                           *)

\* The builds with the highest build_number of their workspace.
LatestBuilds ==
    {b \in workspace_builds :
        ~\E c \in workspace_builds :
            /\ c.workspace_id = b.workspace_id
            /\ c.build_number > b.build_number}

\* The version is in use when the step begins: the latest build of some
\* workspace runs it, or it is the active version of the given template.
InUse(id, template_id) ==
    \/ \E b \in LatestBuilds : b.template_version_id = id
    \/ \E t \in DOMAIN templates : {t} = template_id /\ templates[t] = id

\* The version's provisioner job exists, is neither pending nor running,
\* and has the status asked for, if one is.
JobSettled(id, job_status) ==
    LET j == template_versions[id].job_id
    IN  /\ j \in DOMAIN provisioner_jobs
        /\ provisioner_jobs[j] \notin {"pending", "running"}
        /\ job_status # {} => {provisioner_jobs[j]} = job_status

\* C9: PruneUnusedTemplateVersions only soft-deletes unused versions.  In
\* every step of PruneUnusedTemplateVersions, a row that changes was an
\* undeleted version of the given template, not in use, with a settled job;
\* it changes in deleted and updated_at alone; the ids returned are the rows
\* that changed; no row appears or disappears and the other tables stay as
\* they are.
C9_PruneOnlySoftDeletesUnused ==
    [][dbOp'.name = "PruneUnusedTemplateVersions" =>
        /\ DOMAIN template_versions' = DOMAIN template_versions
        /\ UNCHANGED <<provisioner_jobs, templates, workspace_builds>>
        /\ dbOp' # dbOp =>
               dbOp'.ids = {id \in DOMAIN template_versions :
                               template_versions'[id] # template_versions[id]}
        /\ \A id \in DOMAIN template_versions :
               template_versions'[id] # template_versions[id] =>
                   /\ template_versions'[id] =
                          [template_versions[id] EXCEPT
                              !.deleted = TRUE,
                              !.updated_at = template_versions'[id].updated_at]
                   /\ template_versions[id].template_id = dbOp'.template_id
                   /\ ~template_versions[id].deleted
                   /\ ~InUse(id, dbOp'.template_id)
                   /\ JobSettled(id, dbOp'.job_status)
    ]_vars

\* A prune has just deleted the version an outdated build ran, and kept
\* the version of the same template that a latest build runs.
C9_Witness ==
    /\ dbOp.name = "PruneUnusedTemplateVersions"
    /\ \E id \in dbOp.ids :
           /\ template_versions[id].deleted
           /\ \E b \in workspace_builds \ LatestBuilds :
                  b.template_version_id = id
    /\ \E id \in DOMAIN template_versions :
           /\ template_versions[id].template_id = dbOp.template_id
           /\ ~template_versions[id].deleted
           /\ templates["t1"] # id
           /\ \E b \in LatestBuilds : b.template_version_id = id

\* The rows a listing has returned are in ascending (created_at, id) order.
Ascending(rows) ==
    \A i \in 1..Len(rows) - 1 :
        \/ rows[i].created_at < rows[i + 1].created_at
        \/ /\ rows[i].created_at = rows[i + 1].created_at
           /\ rows[i].id < rows[i + 1].id

Occurrences(rows, id) == Cardinality({i \in 1..Len(rows) : rows[i].id = id})

\* C10: keyset pagination neither duplicates nor misses data.  When a
\* listing by pages ends, every row that matched its filter from its first
\* query to its last is in the result exactly once, and the result is in
\* strictly ascending (created_at, id) order, so no row is in it twice; a
\* query with limit 0 returns every matching row, in that order.
C10_KeysetPaginationComplete ==
    /\ listing.phase = "done" =>
           /\ \A id \in listing.stable : Occurrences(listing.rows, id) = 1
           /\ Ascending(listing.rows)
    /\ listing.phase = "all" =>
           /\ {listing.rows[i].id : i \in 1..Len(listing.rows)} =
                  {id \in DOMAIN template_versions :
                      MatchesFilter(template_versions, id,
                                    listing.template_id,
                                    listing.deleted) = "true"}
           /\ Ascending(listing.rows)

\* A listing of several pages has ended: two of its rows share created_at,
\* the row that was its cursor was soft-deleted between two pages, and a
\* row that matched throughout came after that.
C10_Witness ==
    /\ listing.phase = "done"
    /\ listing.cursor_deleted
    /\ listing.deleted = {FALSE}
    /\ Len(listing.rows) >= 3
    /\ \E i \in 1..Len(listing.rows) - 1 :
           /\ listing.rows[i].created_at = listing.rows[i + 1].created_at
           /\ template_versions[listing.rows[i].id].deleted
           /\ listing.rows[i + 1].id \in listing.stable

====
